---- MODULE Spec2Model ----
(***************************************************************************)
(* A model of scripts/standalone_cambridge.py: build_url, fetch_html,      *)
(* parse_cambridge with extract_definitions, render_html and main.         *)
(*                                                                         *)
(* Texts are strings, concatenated with \o.  The text " " stands for any   *)
(* whitespace-only text: get_text() keeps it, strip=True and               *)
(* normalize_text turn it into the empty text.                             *)
(*                                                                         *)
(* The HTML document is modelled as the tree BeautifulSoup builds from it, *)
(* reduced to the elements and attributes the parser looks at.             *)
(***************************************************************************)
EXTENDS Integers, Sequences, FiniteSets, TLC

VARIABLES
    pc,              \* position of the running call
    fn,              \* the function that was called: main, build_url, parse_cambridge, render_html
    args,            \* its arguments
    url,             \* main: the value build_url returned
    netCalls,        \* number of times fetch_html opened the URL
    html,            \* the document being parsed
    is_english,      \* parse_cambridge's flag
    result,          \* parse_cambridge's result record
    guidewords,      \* parse_cambridge: texts of all guideword markers of the container
    guideword_index, \* parse_cambridge: next_guideword's position in guidewords
    header_found,    \* parse_cambridge: a pos-header has been processed
    ei,              \* parse_cambridge: index of the entry being processed
    si,              \* parse_cambridge: index of the next sense of that entry
    pos_gram,        \* parse_cambridge: the loop's pos_gram variable
    last,            \* history: the latest extract_definitions call and its outcome
    err,             \* the exception that ended the call, "" when none
    out              \* what the call returned, wrote or printed

vars == << pc, fn, args, url, netCalls, html, is_english, result, guidewords,
           guideword_index, header_found, ei, si, pos_gram, last, err, out >>

\* Python's None
None == "None"

\* truthiness of an Optional[str]
Falsy(t) == t = None \/ t = ""

\* str.strip() / get_text(strip=True) on a text atom
Strip(t) == IF t = " " THEN "" ELSE t

normalize_text(t) == Strip(t)

\* sep.join(parts)
RECURSIVE Join(_, _)
Join(sep, parts) ==
    IF parts = << >> THEN ""
    ELSE IF Len(parts) = 1 THEN parts[1]
    ELSE parts[1] \o sep \o Join(sep, Tail(parts))

CAMBRIDGE_BASE == "https://dictionary.cambridge.org/"

LangKeys == {"en", "en-zh-s", "en-zh-t"}

LANG_URLS ==
    [k \in LangKeys |->
        CASE k = "en"      -> "https://dictionary.cambridge.org/dictionary/english/"
          [] k = "en-zh-s" -> "https://dictionary.cambridge.org/us/dictionary/english-chinese-simplified/"
          [] k = "en-zh-t" -> "https://dictionary.cambridge.org/us/dictionary/english-chinese-traditional/"]

----------------------------------------------------------------------------
(* The document tree.                                                      *)

\* a child node of a sense body or phrase body
Node(isTag, hasClass, classes, head, gw, hasBody, kids, def_info, labs, prLabs, def, trans, examps) ==
    [isTag |-> isTag, hasClass |-> hasClass, classes |-> classes, head |-> head,
     gw |-> gw, hasBody |-> hasBody, kids |-> kids, def_info |-> def_info,
     labs |-> labs, prLabs |-> prLabs, def |-> def, trans |-> trans, examps |-> examps]

\* <div class="def-block"> or <div class="runon-body"> with the elements extract_sense reads
Leaf(cls, def_info, labs, prLabs, def, trans, examps) ==
    Node(TRUE, TRUE, <<cls>>, None, None, FALSE, << >>, def_info, labs, prLabs, def, trans, examps)

DefBlock(def) == Leaf("def-block", None, << >>, << >>, def, None, << >>)

\* <div class="phrase-block ..."> with an optional phrase-head, guideword marker and phrase-body
PhraseBlock(classes, head, gw, hasBody, kids) ==
    Node(TRUE, TRUE, classes, head, gw, hasBody, kids, None, << >>, << >>, None, None, << >>)

\* any other element, given by its class attribute (absent, or a list of classes)
OtherTag(hasClass, classes, kids) ==
    Node(TRUE, hasClass, classes, None, None, FALSE, kids, None, << >>, << >>, None, None, << >>)

\* a NavigableString between the blocks
TextNode == Node(FALSE, FALSE, << >>, None, None, FALSE, << >>, None, << >>, << >>, None, None, << >>)

\* block.find_all("span", class_="guideword") in document order
RECURSIVE Markers(_)
RECURSIVE MarkersOfSeq(_)
Markers(block) ==
    (IF block.gw = None THEN << >> ELSE << block.gw >>) \o MarkersOfSeq(block.kids)
MarkersOfSeq(blocks) ==
    IF blocks = << >> THEN << >> ELSE Markers(Head(blocks)) \o MarkersOfSeq(Tail(blocks))

\* block.find("span", class_="phrase-head"): the first one among the descendants
RECURSIVE FindPhraseHead(_)
RECURSIVE FindPhraseHeadSeq(_)
FindPhraseHead(block) ==
    IF block.head # None THEN block.head ELSE FindPhraseHeadSeq(block.kids)
FindPhraseHeadSeq(blocks) ==
    IF blocks = << >> THEN None
    ELSE LET h == FindPhraseHead(Head(blocks))
         IN  IF h # None THEN h ELSE FindPhraseHeadSeq(Tail(blocks))

----------------------------------------------------------------------------
(* extract_definitions                                                     *)

\* block.get("class", [""])
ClassOf(block) == IF block.hasClass THEN block.classes ELSE << "" >>

\* find_parent("div", class_=lambda c: c and "dsense" in c) seen from the children of
\* `block`: `block` itself when it carries a dsense class, else what `block` sees.
\* A sense group is [has |-> a group encloses, gw |-> its first guideword marker or None].
DsenseBelow(block, ds) ==
    IF \E i \in 1..Len(ClassOf(block)) : ClassOf(block)[i] = "dsense"
    THEN [has |-> TRUE,
          gw  |-> IF Markers(block) = << >> THEN None ELSE Head(Markers(block))]
    ELSE ds

\* next_guideword(): the value returned and the new guideword_index
next_guideword(gws, gi) ==
    IF gi < Len(gws) THEN [value |-> gws[gi + 1], gi |-> gi + 1]
    ELSE [value |-> None, gi |-> gi]

\* guideword resolution that ignores the guideword parse_cambridge passes in
GuidewordForBlock_no_param(guideword, ds, gws, gi) ==
    LET local == IF ds.has /\ ds.gw # None THEN normalize_text(Strip(ds.gw)) ELSE None
    IN  IF Falsy(local) THEN next_guideword(gws, gi)
        ELSE [value |-> local, gi |-> gi]

\* lines 316-323: the guideword of one block, and the guideword_index afterwards
GuidewordForBlock(guideword, ds, gws, gi) ==
    LET local == IF ds.has /\ ds.gw # None THEN normalize_text(Strip(ds.gw)) ELSE guideword
    IN  IF Falsy(local) THEN next_guideword(gws, gi)
        ELSE [value |-> local, gi |-> gi]

\* lines 302-311: the block's own non-empty labels, else those of the enclosing div.pr
LabelTags(block) ==
    LET own == SelectSeq(block.labs, LAMBDA l : Strip(l) # "")
    IN  IF own # << >> THEN [i \in 1..Len(own) |-> Strip(own[i])]
        ELSE LET par == SelectSeq(block.prLabs, LAMBDA l : Strip(l) # "")
             IN  [i \in 1..Len(par) |-> Strip(par[i])]

\* lines 296-301
DefInfo(block) ==
    IF block.def_info = None THEN "" ELSE normalize_text(Strip(block.def_info))

\* the tag list with the guideword moved in front of the phrase header
TagList_guideword_early(posgram, runon_title, phrase, guideword_for_block, def_info, label_tags) ==
    LET tags == << [slot |-> "pos_gram", v |-> posgram],
                   [slot |-> "runon_title", v |-> runon_title],
                   [slot |-> "guideword", v |-> guideword_for_block],
                   [slot |-> "phrase", v |-> phrase],
                   [slot |-> "def_info", v |-> Strip(def_info)] >>
                \o [i \in 1..Len(label_tags) |-> [slot |-> "lab", v |-> label_tags[i]]]
    IN  SelectSeq(tags, LAMBDA t : ~Falsy(t.v))

\* lines 325-333: the tags in the order of the list, the falsy ones dropped.
\* Each kept tag is written "[tag]"; the slot records which list element it was.
TagList(posgram, runon_title, phrase, guideword_for_block, def_info, label_tags) ==
    LET tags == << [slot |-> "pos_gram", v |-> posgram],
                   [slot |-> "runon_title", v |-> runon_title],
                   [slot |-> "phrase", v |-> phrase],
                   [slot |-> "guideword", v |-> guideword_for_block],
                   [slot |-> "def_info", v |-> Strip(def_info)] >>
                \o [i \in 1..Len(label_tags) |-> [slot |-> "lab", v |-> label_tags[i]]]
    IN  SelectSeq(tags, LAMBDA t : ~Falsy(t.v))

\* lines 334-338
MainTextParts(block) ==
    (IF block.def # None /\ Strip(block.def) # "" THEN << normalize_text(Strip(block.def)) >> ELSE << >>)
    \o (IF block.trans # None /\ Strip(block.trans) # "" THEN << normalize_text(Strip(block.trans)) >> ELSE << >>)

\* lines 340-344
ExampleLines(block) ==
    LET ex == SelectSeq(block.examps, LAMBDA e : Strip(e) # "")
    IN  [i \in 1..Len(ex) |-> normalize_text(Strip(ex[i]))]

\* lines 345-350: full_text as its pieces in the order they are joined: the tag
\* block "[t1] [t2] ...", then the main text, then the example lines "- e"
FullText(tags, main, examples) ==
    [i \in 1..Len(tags) |-> [k |-> "tag", slot |-> tags[i].slot, v |-> tags[i].v]]
    \o (IF main = << >> THEN << >>
        ELSE << [k |-> "main", slot |-> "", v |-> Join(" ", main)] >>)
    \o [i \in 1..Len(examples) |-> [k |-> "example", slot |-> "", v |-> examples[i]]]

\* extract_sense(block, phrase).  env holds the closure's variables (pos_gram,
\* runon_title, guideword, guidewords), the sense group enclosing the block (ds)
\* and the block's position below the sense body (path); st is what the calls
\* thread through: items, the position each item came from (srcs),
\* guideword_index (gi) and the exception raised (err).
RECURSIVE extract_sense(_, _, _, _)
RECURSIVE extract_children(_, _, _, _, _)
extract_sense(block, phrase, env, st) ==
    IF st.err # "" THEN st
    ELSE IF ~block.isTag THEN st
    ELSE IF ClassOf(block) = << >> THEN [st EXCEPT !.err = "IndexError"]
    ELSE LET block_type == ClassOf(block)[1] IN
      IF block_type = "phrase-block"
      THEN IF block.hasBody
           THEN extract_children(block.kids, 1,
                                 FindPhraseHead(block),
                                 [env EXCEPT !.ds = DsenseBelow(block, env.ds)], st)
           ELSE st
      ELSE IF block_type \notin {"def-block", "runon-body"} THEN st
      ELSE LET g    == GuidewordForBlock(env.guideword, env.ds, env.guidewords, st.gi)
               tags == TagList(env.pos_gram, env.runon_title, phrase, g.value,
                               DefInfo(block), LabelTags(block))
           IN  [st EXCEPT !.items = Append(@, FullText(tags, MainTextParts(block), ExampleLines(block))),
                          !.srcs  = Append(@, env.path),
                          !.gi    = g.gi]

\* for child in body: extract_sense(child, phrase)
extract_children(blocks, i, phrase, env, st) ==
    IF i > Len(blocks) THEN st
    ELSE extract_children(blocks, i + 1, phrase, env,
                          extract_sense(blocks[i], phrase,
                                        [env EXCEPT !.path = Append(@, i)], st))

\* extract_definitions(sense_body, pos_gram, runon_title, guideword, next_guideword)
extract_definitions(sense_body, posgram, runon_title, guideword, gws, gi) ==
    extract_children(sense_body.kids, 1, None,
                     [pos_gram |-> posgram, runon_title |-> runon_title,
                      guideword |-> guideword, guidewords |-> gws,
                      ds |-> sense_body.ds, path |-> << >>],
                     [items |-> << >>, srcs |-> << >>, gi |-> gi, err |-> ""])

----------------------------------------------------------------------------
(* parse_cambridge                                                         *)

\* lines 360-365
EmptyResult ==
    [pronunciation |-> [AmE |-> "", BrE |-> "", AmEmp3 |-> "", BrEmp3 |-> ""],
     image |-> "", thumb |-> "", definitions |-> << >>]

\* the container class chosen without looking at the language flag
PageClass_unconditional(english) == "page"

\* line 367
PageClass(english) == IF english THEN "page" ELSE "di-body"

\* line 368: soup.find("div", class_=page_class) finds a container
FindContainer(doc, page_class) == doc.cls = page_class

\* sense.find_all("span", class_="guideword")
SenseMarkers(sense) == sense.gws \o MarkersOfSeq(sense.kids)

RECURSIVE MarkersOfSenses(_)
MarkersOfSenses(senses) ==
    IF senses = << >> THEN << >>
    ELSE SenseMarkers(Head(senses)) \o MarkersOfSenses(Tail(senses))

RECURSIVE MarkersOfEntries(_)
MarkersOfEntries(entries) ==
    IF entries = << >> THEN << >>
    ELSE MarkersOfSenses(Head(entries).senses) \o MarkersOfEntries(Tail(entries))

\* lines 373-377
Guidewords(doc) ==
    LET kept == SelectSeq(MarkersOfEntries(doc.entries), LAMBDA t : Strip(t) # "")
    IN  [i \in 1..Len(kept) |-> normalize_text(Strip(kept[i]))]

\* lines 396-405: one span.dpron-i
ApplyPronTag(pron, tag) ==
    LET reg  == IF tag.region = None THEN "" ELSE tag.region
        key  == IF reg = "us" THEN "AmE" ELSE "BrE"
        text == IF tag.pron = None THEN "" ELSE tag.pron
        p1   == [pron EXCEPT ![key] = text]
    IN  IF ~Falsy(tag.src)
        THEN IF key = "AmE" THEN [p1 EXCEPT !.AmEmp3 = CAMBRIDGE_BASE \o tag.src]
                            ELSE [p1 EXCEPT !.BrEmp3 = CAMBRIDGE_BASE \o tag.src]
        ELSE p1

\* lines 394-405: for tag in tags
RECURSIVE ApplyPronTags(_, _)
ApplyPronTags(pron, tags) ==
    IF tags = << >> THEN pron
    ELSE ApplyPronTags(ApplyPronTag(pron, Head(tags)), Tail(tags))

\* the header of every entry is read, header_found or not
HeaderWanted_every_entry(found, entry) == entry.hasHeader

\* lines 391-393: the entry's header is looked at
HeaderWanted(found, entry) == ~found /\ entry.hasHeader

\* lines 413-420: pos_gram and runon_title of one sense
IsRunon(sense) == sense.classes[1] = "runon"

SensePosGram(current, sense) ==
    IF IsRunon(sense) /\ sense.runon_pos # None
    THEN sense.runon_pos \o (IF sense.runon_gram = None THEN "" ELSE sense.runon_gram)
    ELSE current

SenseRunonTitle(sense) == IF IsRunon(sense) THEN sense.runon_title ELSE None

\* lines 423-426
SenseGuideword(sense) ==
    IF Len(SenseMarkers(sense)) = 1
    THEN normalize_text(Strip(SenseMarkers(sense)[1]))
    ELSE None

\* the sense body as extract_definitions sees it: its children and the sense
\* group enclosing it
SenseBody(sense) ==
    [kids |-> sense.kids,
     ds   |-> [has |-> sense.ds,
               gw  |-> IF sense.ds /\ SenseMarkers(sense) # << >>
                       THEN Head(SenseMarkers(sense)) ELSE None]]

\* lines 438-443
ImageAfter(res, sense) ==
    IF ~sense.hasImg THEN res
    ELSE [res EXCEPT
            !.image = IF ~Falsy(sense.data_image) THEN CAMBRIDGE_BASE \o sense.data_image ELSE @,
            !.thumb = IF ~Falsy(sense.src) THEN CAMBRIDGE_BASE \o sense.src ELSE @]

----------------------------------------------------------------------------
(* build_url, render_html and the strings main hands to them               *)

\* build_url with a default: an unknown key gets the English dictionary
build_url_default(word, lang) ==
    [raised |-> "",
     value |-> (IF lang \in LangKeys THEN LANG_URLS[lang] ELSE LANG_URLS["en"]) \o word]

\* lines 448-452
build_url(word, lang) ==
    IF lang \in LangKeys /\ LANG_URLS[lang] # ""
    THEN [raised |-> "", value |-> LANG_URLS[lang] \o word]
    ELSE [raised |-> "ValueError", value |-> ""]

\* lines 333-349: the string extract_sense appends for one block
DefString(item) ==
    LET tags     == SelectSeq(item, LAMBDA t : t.k = "tag")
        rest     == SelectSeq(item, LAMBDA t : t.k # "tag")
        tag_text == Join(" ", [i \in 1..Len(tags) |-> "[" \o tags[i].v \o "]"])
        definition_text ==
            Join("\n", [i \in 1..Len(rest) |->
                          IF rest[i].k = "example" THEN "- " \o rest[i].v ELSE rest[i].v])
    IN  Join(" ", SelectSeq(<< tag_text, definition_text >>, LAMBDA x : x # ""))

\* a text that starts with a backslash, one of [ ^ \, then "]\]\": the only texts
\* the pattern of line 190, r"^((?:\\[[^\\]]+\\]\\s*)+)(.*)$", matches
BackslashText == "\\[]\\]\\ x"

\* line 190: re.match finds the pattern at the start of the definition
TagMatch(definition) == definition = BackslashText

\* lines 189-208: format_definition.  When the pattern of line 190 matches,
\* line 194 compiles r"\\[([^\\]]+)\\]", which re rejects (unbalanced parenthesis).
format_definition(index, definition) ==
    IF TagMatch(definition)
    THEN [raised |-> "re.error", el |-> "", text |-> ""]
    ELSE [raised |-> "", el |-> "li.definition",
          text |-> IF Strip(definition) = "" THEN "No definition text." ELSE Strip(definition)]

\* lines 210-213
DefList(defs) ==
    IF defs = << >>
    THEN << [raised |-> "", el |-> "li.definition", text |-> "No definitions found."] >>
    ELSE [i \in 1..Len(defs) |-> format_definition(i, defs[i])]

\* lines 215-219
MediaParts(image_url, thumb_url) ==
    (IF ~Falsy(thumb_url) THEN << [el |-> "img", text |-> thumb_url] >> ELSE << >>)
    \o (IF ~Falsy(image_url) /\ image_url # thumb_url
        THEN << [el |-> "img", text |-> image_url] >> ELSE << >>)

\* line 220
MediaHtml(image_url, thumb_url) ==
    IF MediaParts(image_url, thumb_url) # << >> THEN MediaParts(image_url, thumb_url)
    ELSE << [el |-> "div.meta", text |-> "No images available."] >>

\* lines 177-256: the document as the sequence of its elements, or the exception
render_html(data, css_path) ==
    LET defs == DefList(data.definitions)
        bad  == { i \in 1..Len(defs) : defs[i].raised # "" }
    IN  IF bad # {}
        THEN [raised |-> "re.error", doc |-> << >>]
        ELSE [raised |-> "",
              doc |-> << [el |-> "title", text |-> "Cambridge: " \o data.word],
                         IF ~Falsy(css_path) THEN [el |-> "link", text |-> css_path]
                                             ELSE [el |-> "style", text |-> "DEFAULT_CSS"],
                         [el |-> "div.word", text |-> data.word],
                         [el |-> "a", text |-> data.url],
                         [el |-> "span", text |-> "AmE: " \o data.pronunciation.AmE],
                         [el |-> "span", text |-> "BrE: " \o data.pronunciation.BrE] >>
                      \o [i \in 1..Len(defs) |-> [el |-> defs[i].el, text |-> defs[i].text]]
                      \o MediaHtml(data.image, data.thumb)
                      \o << [el |-> "div.footer", text |-> "Generated by standalone_cambridge.py"] >>]

\* lines 472-474: the record main prints and renders
MainData(res, word, u) ==
    [pronunciation |-> res.pronunciation, image |-> res.image, thumb |-> res.thumb,
     definitions |-> [i \in 1..Len(res.definitions) |-> DefString(res.definitions[i])],
     word |-> word, url |-> u]

----------------------------------------------------------------------------
(* The inputs: documents, command lines and lookup records.                *)

MaxDepth == 2     \* phrase blocks nested in phrase blocks
MaxEntries == 2   \* entry blocks of a container
MaxSenses == 2    \* pos-body blocks of an entry
MaxBlocks == 2    \* definition blocks of a sense body

\* <div class="pos-body ..."> : its class list, the runon elements, the guideword
\* markers that precede its body (gws), whether a sense group (a div with a
\* dsense class) encloses those markers and the body (ds), the body's
\* children, and the lightbox image with its data-image and src attributes
Sense(classes, runon_pos, runon_gram, runon_title, gws, ds, hasBody, kids, hasImg, data_image, src) ==
    [classes |-> classes, runon_pos |-> runon_pos, runon_gram |-> runon_gram,
     runon_title |-> runon_title, gws |-> gws, ds |-> ds, hasBody |-> hasBody,
     kids |-> kids, hasImg |-> hasImg, data_image |-> data_image, src |-> src]

PlainSense(kids) ==
    Sense(<< "pos-body" >>, None, None, None, << >>, FALSE, TRUE, kids, FALSE, None, None)

\* <div class="entry-body__el">
Entry(hasHeader, prons, posgram, senses) ==
    [hasHeader |-> hasHeader, prons |-> prons, posgram |-> posgram, senses |-> senses]

Seqs(S, n) == UNION { [1..k -> S] : k \in 1..n }

\* one definition block under every combination of present and absent tags
LeafBlocks ==
    { Leaf("def-block", info, l[1], l[2], d, t, ex) :
        info \in {None, "info"},
        l \in { << << >>, << >> >>, << << >>, << "plab" >> >>,
                << << "formal" >>, << "plab" >> >>, << << " ", "UK", "slang" >>, << >> >> },
        d \in {None, "to move quickly"},
        t \in {None, "trans"},
        ex \in { << >>, << "e1", " ", "e2" >> } }

EntriesTags ==
    { << Entry(FALSE, << >>, pg,
               << Sense(<< cls, "pos-body" >>, None, None, "runner", gw, FALSE, TRUE,
                        << IF ph THEN PhraseBlock(<< "phrase-block" >>, "phrase", None, TRUE, << b >>)
                                 ELSE b >>,
                        FALSE, None, None) >>) >> :
        pg \in {None, "noun"}, cls \in {"runon", "pr"}, gw \in { << >>, << "GUIDE" >> },
        ph \in BOOLEAN, b \in LeafBlocks }

\* phrase blocks nested to depth d around one definition block
RECURSIVE Chains(_)
Chains(d) ==
    IF d = 0 THEN { DefBlock("def") }
    ELSE Chains(d - 1) \cup
         { PhraseBlock(cls, h, g, TRUE, << TextNode, k >>) :
             cls \in { << "phrase-block" >>, << "phrase-block", "dsense" >> },
             h \in {None, "", "head" \o ToString(d)},
             g \in {None, "pg" \o ToString(d)},
             k \in Chains(d - 1) }

EntriesPhrase ==
    { << Entry(FALSE, << >>, "verb", << PlainSense(<< b, DefBlock("tail") >>) >>) >> :
        b \in Chains(MaxDepth) }
    \cup
    { << Entry(FALSE, << >>, "verb",
               << PlainSense(<< PhraseBlock(<< "phrase-block" >>, "head", None, hb,
                                            << OtherTag(TRUE, << "wrap" >>, << DefBlock("deep") >>),
                                               DefBlock("def") >>) >>) >>) >> :
        hb \in BOOLEAN }

\* senses with zero, one or two guideword markers, inside a sense group or not
SensesGw(e, j) ==
    { Sense(<< "pos-body" >>, None, None, None, g, ds, TRUE,
            [b \in 1..n |-> DefBlock("d" \o ToString(b))], FALSE, None, None) :
        g \in { << >>, << " " >>, << "g" \o ToString(e) \o ToString(j) >>,
                << "g" \o ToString(e) \o ToString(j), "h" \o ToString(e) \o ToString(j) >> },
        ds \in BOOLEAN, n \in 1..MaxBlocks }

EntriesGw ==
    { << Entry(FALSE, << >>, None, << s1 >>) >> : s1 \in SensesGw(1, 1) }
    \cup
    { << Entry(FALSE, << >>, None, << s1, s2 >>) >> :
        s1 \in SensesGw(1, 1), s2 \in { x \in SensesGw(1, 2) : Len(x.kids) = 1 } }
    \cup
    { << Entry(FALSE, << >>, None, << s1 >>), Entry(FALSE, << >>, None, << s2 >>) >> :
        s1 \in SensesGw(1, 1), s2 \in { x \in SensesGw(2, 1) : Len(x.kids) = 1 } }

\* entries with and without a pos-header
EntryPron(i) ==
    LET n == ToString(i) IN
    { Entry(FALSE, << >>, "pos" \o n, << PlainSense(<< DefBlock("d" \o n) >>) >>),
      Entry(TRUE, << >>, "pos" \o n, << >>),
      Entry(TRUE, << [region |-> "us", pron |-> "us" \o n, src |-> "us" \o n \o ".mp3"] >>,
            None, << >>),
      Entry(TRUE, << [region |-> None, pron |-> "uk" \o n, src |-> None],
                     [region |-> "us", pron |-> None, src |-> ""] >>, None, << >>),
      Entry(TRUE, << [region |-> "uk", pron |-> "uk" \o n, src |-> "uk" \o n \o ".mp3"],
                     [region |-> "us", pron |-> "us" \o n, src |-> "us" \o n \o ".mp3"] >>,
            "pos" \o n, << PlainSense(<< DefBlock("d" \o n) >>) >>) }

EntriesPron ==
    UNION { { f \in [1..k -> UNION { EntryPron(i) : i \in 1..k }] :
                \A i \in 1..k : f[i] \in EntryPron(i) } : k \in 0..MaxEntries }

\* senses with and without a lightbox image
SenseImg(j) ==
    LET n == ToString(j) IN
    { Sense(<< "pos-body" >>, None, None, None, << >>, FALSE, FALSE, << >>, a[1], a[2], a[3]) :
        a \in { << FALSE, None, None >>,
                << TRUE, "img" \o n \o ".jpg", "thumb" \o n \o ".jpg" >>,
                << TRUE, "img" \o n \o ".jpg", None >>,
                << TRUE, None, "thumb" \o n \o ".jpg" >>,
                << TRUE, "", "" >> } }

EntriesImg ==
    { << Entry(FALSE, << >>, None, ss) >> :
        ss \in UNION { { f \in [1..k -> UNION { SenseImg(j) : j \in 1..k }] :
                           \A j \in 1..k : f[j] \in SenseImg(j) } : k \in 1..MaxSenses } }

\* runon and ordinary senses in any order
SensesRunon ==
    { PlainSense(<< DefBlock("plain") >>),
      Sense(<< "pos-body", "runon" >>, "adj", None, "title", << >>, FALSE, TRUE,
            << DefBlock("notfirst") >>, FALSE, None, None),
      Sense(<< "runon", "pos-body" >>, None, "gram", "runner", << >>, FALSE, TRUE,
            << Leaf("runon-body", None, << >>, << >>, "run1", None, << >>) >>, FALSE, None, None),
      Sense(<< "runon", "pos-body" >>, "adverb", None, None, << >>, FALSE, TRUE,
            << DefBlock("run2") >>, FALSE, None, None),
      Sense(<< "runon", "pos-body" >>, "adverb", " [I]", "runner", << >>, FALSE, TRUE,
            << DefBlock("run3") >>, FALSE, None, None) }

EntriesRunon ==
    { << Entry(FALSE, << >>, pg, ss) >> :
        pg \in {None, "noun", " "}, ss \in Seqs(SensesRunon, MaxSenses) }

\* children of a sense body or phrase body that are no blocks
EntriesClass ==
    { << Entry(FALSE, << >>, "noun", << s >>) >> :
        s \in { PlainSense(kids) :
                  kids \in { << >>,
                             << TextNode, DefBlock("def"), TextNode >>,
                             << OtherTag(FALSE, << >>, << >>), DefBlock("def") >>,
                             << OtherTag(TRUE, << "daccord" >>, << DefBlock("hidden") >>) >>,
                             << OtherTag(TRUE, << >>, << >>) >>,
                             << DefBlock("def"), OtherTag(TRUE, << >>, << >>), DefBlock("after") >>,
                             << PhraseBlock(<< "phrase-block" >>, "head", None, TRUE,
                                            << DefBlock("def"), OtherTag(TRUE, << >>, << >>) >>) >>,
                             << PhraseBlock(<< "phrase-block" >>, None, None, FALSE, << >>) >> } }
              \cup { Sense(<< "pos-body" >>, None, None, None, << "g" >>, FALSE, FALSE, << >>,
                           FALSE, None, None) } }

ContainerClasses == {"page", "di-body", "other"}

Docs ==
    { [cls |-> c, entries |-> es] :
        c \in ContainerClasses,
        es \in EntriesTags \cup EntriesPhrase \cup EntriesGw \cup EntriesPron
               \cup EntriesImg \cup EntriesRunon \cup EntriesClass }

\* command lines: argv as argparse receives it
Words == {"test", ""}

Langs == LangKeys \cup {"fr", ""}

CommandLines ==
    [word : Words, lang : Langs, pretty : BOOLEAN, html_out : {None, "out.html"},
     css_out : {None, "out.css"}]

\* what the dictionary site answers in main's run
DocsMain ==
    { [cls |-> c, entries |-> es] :
        c \in {"page", "di-body"},
        es \in EntriesClass \cup { << Entry(FALSE, << >>, None, << x >>) >> : x \in SenseImg(1) } }

\* lookup records handed to render_html; a missing key reads as None
Records ==
    [pronunciation : { [AmE |-> "", BrE |-> "", AmEmp3 |-> "", BrEmp3 |-> ""],
                       [AmE |-> "us", BrE |-> "uk", AmEmp3 |-> "", BrEmp3 |-> ""] },
     image : {None, "", CAMBRIDGE_BASE \o "img.jpg"},
     thumb : {None, "", CAMBRIDGE_BASE \o "img.jpg", CAMBRIDGE_BASE \o "thumb.jpg"},
     definitions : { << >>, << "[noun] to move quickly", " " >>, << "plain", BackslashText >> },
     word : Words,
     url : {"", LANG_URLS["en"] \o "test"}]

NoLast == [valid |-> FALSE]

----------------------------------------------------------------------------
(* The calls.                                                              *)

Init ==
    /\ pc = "idle"
    /\ fn = ""
    /\ args = << >>
    /\ url = ""
    /\ netCalls = 0
    /\ html = [cls |-> "other", entries |-> << >>]
    /\ is_english = TRUE
    /\ result = EmptyResult
    /\ guidewords = << >>
    /\ guideword_index = 0
    /\ header_found = FALSE
    /\ ei = 0
    /\ si = 0
    /\ pos_gram = ""
    /\ last = NoLast
    /\ err = ""
    /\ out = << >>

parseVars == << html, is_english, result, guidewords, guideword_index, header_found,
                ei, si, pos_gram, last >>

\* build_url(word, lang) called on its own
CallBuildUrl ==
    /\ pc = "idle"
    /\ \E w \in Words, l \in Langs :
         /\ fn' = "build_url"
         /\ args' = [word |-> w, lang |-> l]
         /\ LET r == build_url(w, l) IN
              /\ err' = r.raised
              /\ url' = r.value
              /\ pc' = IF r.raised = "" THEN "returned" ELSE "raised"
    /\ UNCHANGED << netCalls, out >>
    /\ UNCHANGED parseVars

\* render_html(data, css_path) called on its own
CallRender ==
    /\ pc = "idle"
    /\ \E d \in Records, css \in {None, "style.css"} :
         /\ fn' = "render_html"
         /\ args' = [data |-> d, css_path |-> css]
         /\ LET r == render_html(d, css) IN
              /\ err' = r.raised
              /\ out' = r.doc
              /\ pc' = IF r.raised = "" THEN "returned" ELSE "raised"
    /\ UNCHANGED << url, netCalls >>
    /\ UNCHANGED parseVars

\* parse_cambridge(html, is_english) called on its own
CallParse ==
    /\ pc = "idle"
    /\ \E d \in Docs, e \in BOOLEAN :
         /\ html' = d
         /\ is_english' = e
    /\ fn' = "parse_cambridge"
    /\ pc' = "parse_start"
    /\ UNCHANGED << args, url, netCalls, result, guidewords, guideword_index,
                    header_found, ei, si, pos_gram, last, err, out >>

\* lines 359-387: up to the loop over the entries
ParseStart ==
    /\ pc = "parse_start"
    /\ result' = EmptyResult
    /\ IF ~FindContainer(html, PageClass(is_english))
       THEN /\ pc' = "parse_return"
            /\ UNCHANGED << guidewords, guideword_index, header_found, ei >>
       ELSE /\ guidewords' = Guidewords(html)
            /\ guideword_index' = 0
            /\ header_found' = FALSE
            /\ ei' = 1
            /\ pc' = "parse_entry"
    /\ UNCHANGED << fn, args, url, netCalls, html, is_english, si, pos_gram, last, err, out >>

\* lines 388-410: the next entry, up to the loop over its senses
ParseEntry ==
    /\ pc = "parse_entry"
    /\ ei <= Len(html.entries)
    /\ LET entry == html.entries[ei] IN
         /\ IF HeaderWanted(header_found, entry)
            THEN /\ result' = [result EXCEPT
                                 !.pronunciation = ApplyPronTags(@, entry.prons)]
                 /\ header_found' = TRUE
            ELSE UNCHANGED << result, header_found >>
         /\ pos_gram' = IF entry.posgram = None THEN "" ELSE entry.posgram
    /\ si' = 1
    /\ pc' = "parse_sense"
    /\ UNCHANGED << fn, args, url, netCalls, html, is_english, guidewords,
                    guideword_index, ei, last, err, out >>

\* lines 412-443: one sense of the entry
ParseSense ==
    /\ pc = "parse_sense"
    /\ si <= Len(html.entries[ei].senses)
    /\ LET sense == html.entries[ei].senses[si]
           pg    == SensePosGram(pos_gram, sense)
           title == SenseRunonTitle(sense)
           gw    == SenseGuideword(sense)
           r     == IF sense.hasBody
                    THEN extract_definitions(SenseBody(sense), pg, title, gw,
                                             guidewords, guideword_index)
                    ELSE [items |-> << >>, srcs |-> << >>, gi |-> guideword_index, err |-> ""]
       IN
         /\ pos_gram' = pg
         /\ last' = [valid |-> sense.hasBody, sense |-> sense, pos_gram |-> pg,
                     entry_pos_gram |-> IF html.entries[ei].posgram = None THEN ""
                                        ELSE html.entries[ei].posgram,
                     runon_title |-> title, guideword |-> gw, gi |-> guideword_index,
                     items |-> r.items, srcs |-> r.srcs, gi_after |-> r.gi, err |-> r.err]
         /\ IF r.err # ""
            THEN /\ err' = r.err
                 /\ pc' = "raised"
                 /\ UNCHANGED << result, guideword_index, si >>
            ELSE /\ result' = ImageAfter([result EXCEPT !.definitions = @ \o r.items], sense)
                 /\ guideword_index' = r.gi
                 /\ si' = si + 1
                 /\ UNCHANGED << err, pc >>
    /\ UNCHANGED << fn, args, url, netCalls, html, is_english, guidewords,
                    header_found, ei, out >>

\* line 412: the senses of the entry are exhausted
ParseNextEntry ==
    /\ pc = "parse_sense"
    /\ si > Len(html.entries[ei].senses)
    /\ ei' = ei + 1
    /\ pc' = "parse_entry"
    /\ UNCHANGED << fn, args, url, netCalls, html, is_english, result, guidewords,
                    guideword_index, header_found, si, pos_gram, last, err, out >>

\* line 388: the entries are exhausted
ParseLoopEnd ==
    /\ pc = "parse_entry"
    /\ ei > Len(html.entries)
    /\ pc' = "parse_return"
    /\ UNCHANGED << fn, args, url, netCalls, out, err >>
    /\ UNCHANGED parseVars

\* lines 370 and 445: return result, to the caller of parse_cambridge
ParseReturn ==
    /\ pc = "parse_return"
    /\ fn = "parse_cambridge"
    /\ out' = << result >>
    /\ pc' = "returned"
    /\ UNCHANGED << fn, args, url, netCalls, err >>
    /\ UNCHANGED parseVars

\* lines 455-467: main() and argparse, which rejects a --lang outside its choices
CallMain ==
    /\ pc = "idle"
    /\ \E a \in CommandLines :
         /\ args' = a
         /\ IF a.lang \in LangKeys
            THEN /\ pc' = "main_build_url"
                 /\ err' = ""
            ELSE /\ pc' = "raised"
                 /\ err' = "SystemExit"
    /\ fn' = "main"
    /\ UNCHANGED << url, netCalls, out >>
    /\ UNCHANGED parseVars

\* line 469
MainBuildUrl ==
    /\ pc = "main_build_url"
    /\ LET r == build_url(args.word, args.lang) IN
         /\ err' = r.raised
         /\ url' = r.value
         /\ pc' = IF r.raised = "" THEN "main_fetch" ELSE "raised"
    /\ UNCHANGED << fn, args, netCalls, out >>
    /\ UNCHANGED parseVars

\* lines 470-472 and 259-265: fetch_html opens the URL; it returns the page
FetchHtml ==
    /\ pc = "main_fetch"
    /\ netCalls' = netCalls + 1
    /\ \E d \in DocsMain : html' = d
    /\ is_english' = (args.lang = "en")
    /\ pc' = "parse_start"
    /\ UNCHANGED << fn, args, url, result, guidewords, guideword_index, header_found,
                    ei, si, pos_gram, last, err, out >>

\* lines 470 and 261: urlopen raises (HTTP error status, timeout)
FetchFails ==
    /\ pc = "main_fetch"
    /\ netCalls' = netCalls + 1
    /\ err' = "URLError"
    /\ pc' = "raised"
    /\ UNCHANGED << fn, args, url, out >>
    /\ UNCHANGED parseVars

\* lines 472-489: the parsed record gets word and url, is rendered when
\* --html-out is given, and is printed
MainFinish ==
    /\ pc = "parse_return"
    /\ fn = "main"
    /\ LET data == MainData(result, args.word, url)
           r    == render_html(data, args.css_out)
       IN  IF args.html_out # None /\ r.raised # ""
           THEN /\ err' = r.raised
                /\ pc' = "raised"
                /\ out' = << >>
           ELSE /\ pc' = "returned"
                /\ out' = << [json |-> data,
                              html_file |-> IF args.html_out # None THEN r.doc ELSE << >>,
                              css_file |-> args.html_out # None /\ args.css_out # None] >>
                /\ UNCHANGED err
    /\ UNCHANGED << fn, args, url, netCalls >>
    /\ UNCHANGED parseVars

Next ==
    \/ CallBuildUrl
    \/ CallRender
    \/ CallParse
    \/ ParseStart
    \/ ParseEntry
    \/ ParseSense
    \/ ParseNextEntry
    \/ ParseLoopEnd
    \/ ParseReturn
    \/ CallMain
    \/ MainBuildUrl
    \/ FetchHtml
    \/ FetchFails
    \/ MainFinish

Spec == Init /\ [][Next]_vars

----------------------------------------------------------------------------
(* Properties.                                                             *)

\* the container the language flag selects is missing from the page
ContainerMissing ==
    \/ is_english /\ html.cls # "page"
    \/ ~is_english /\ html.cls # "di-body"

\* parse_cambridge has gone through the whole page and is about to return
ParsedAll == pc = "parse_return" /\ ~ContainerMissing

\* C1: build_url raises ValueError for every language key outside
\* {en, en-zh-s, en-zh-t}; main never opens a URL for such a key, and it
\* opens a URL only after build_url has returned it.
C1_UnsupportedKeyFails ==
    /\ (fn = "build_url" /\ args.lang \notin {"en", "en-zh-s", "en-zh-t"})
          => (pc = "raised" /\ err = "ValueError" /\ url = "" /\ netCalls = 0)
    /\ (fn = "main" /\ args.lang \notin {"en", "en-zh-s", "en-zh-t"}) => netCalls = 0
    /\ (fn = "main" /\ netCalls > 0) => url = LANG_URLS[args.lang] \o args.word

C1_Witness ==
    fn = "build_url" /\ args.lang = "fr" /\ args.word = "test" /\ pc = "raised"

\* C2 (as claimed): parse_cambridge never raises, whatever the page holds.
C2_NeverRaises ==
    fn = "parse_cambridge" => (pc # "raised" /\ err = "")

\* C3: without the container the language flag selects, parse_cambridge
\* returns the empty record: four empty pronunciation fields, empty image and
\* thumb, no definitions.
C3_MissingContainerEmptyRecord ==
    (fn \in {"parse_cambridge", "main"} /\ ContainerMissing
        /\ pc \notin {"idle", "parse_start", "main_build_url", "main_fetch"}
        /\ err \notin {"SystemExit", "ValueError", "URLError"})
    => /\ pc \in {"parse_return", "returned"}
       /\ err = ""
       /\ result.pronunciation = [AmE |-> "", BrE |-> "", AmEmp3 |-> "", BrEmp3 |-> ""]
       /\ result.image = "" /\ result.thumb = "" /\ result.definitions = << >>
       /\ (fn = "parse_cambridge" /\ pc = "returned") => out = << result >>

C3_Witness ==
    /\ fn = "parse_cambridge" /\ pc = "returned" /\ is_english /\ html.cls = "di-body"
    /\ Len(html.entries) = 2
    /\ html.entries[1].hasHeader /\ html.entries[1].prons # << >>
    /\ html.entries[2].senses # << >>

\* the layout of one definition string
KindRank(k) == CASE k = "tag" -> 1 [] k = "main" -> 2 [] k = "example" -> 3

SlotRank(slot) ==
    CASE slot = "pos_gram" -> 1 [] slot = "runon_title" -> 2 [] slot = "phrase" -> 3
      [] slot = "guideword" -> 4 [] slot = "def_info" -> 5 [] slot = "lab" -> 6

TagBlockFirst(item) ==
    /\ \A i, j \in 1..Len(item) : i < j => KindRank(item[i].k) <= KindRank(item[j].k)
    /\ Cardinality({ i \in 1..Len(item) : item[i].k = "main" }) <= 1
    /\ \A i, j \in 1..Len(item) :
         (i < j /\ item[i].k = "tag" /\ item[j].k = "tag")
         => /\ SlotRank(item[i].slot) <= SlotRank(item[j].slot)
            /\ item[i].slot = item[j].slot => item[i].slot = "lab"
    /\ \A i \in 1..Len(item) : item[i].k = "tag" => (item[i].v # "" /\ item[i].v # None)

\* C4: every definition string is the tags in the order part of speech, runon
\* title, phrase header, guideword, definition info, labels, then the main
\* text, then the example lines; no tag is empty.
C4_TagBlockFirst ==
    /\ \A n \in 1..Len(result.definitions) : TagBlockFirst(result.definitions[n])
    /\ (last.valid /\ pc # "raised")
         => \A n \in 1..Len(last.items) :
               /\ last.items[n] # << >> /\ last.pos_gram # ""
                    => (last.items[n][1].k = "tag" /\ last.items[n][1].v = last.pos_gram)
               /\ last.runon_title \notin {None, ""}
                    => \E i \in 1..Len(last.items[n]) :
                          last.items[n][i] = [k |-> "tag", slot |-> "runon_title",
                                              v |-> last.runon_title]

C4_Witness ==
    \E n \in 1..Len(result.definitions) :
        LET item == result.definitions[n] IN
        /\ { item[i].slot : i \in { j \in 1..Len(item) : item[j].k = "tag" } }
             = {"pos_gram", "runon_title", "phrase", "guideword", "def_info", "lab"}
        /\ \E i \in 1..Len(item) : item[i].k = "main" /\ item[i].v = "to move quickly trans"
        /\ \E i \in 1..Len(item) : item[i].k = "example"

\* the definition blocks below `blocks`, looking through the bodies of phrase
\* blocks only, each with its position and the header texts of the phrase
\* blocks around it
RECURSIVE DefsBeneath(_, _, _)
DefsBeneath(blocks, path, heads) ==
    UNION { LET b == blocks[i]
                p == Append(path, i)
            IN  IF ~b.isTag \/ b.classes = << >> THEN {}
                ELSE IF b.classes[1] = "def-block" THEN { [path |-> p, heads |-> heads] }
                ELSE IF b.classes[1] = "phrase-block" /\ b.hasBody
                THEN DefsBeneath(b.kids, p,
                                 IF b.head \in {None, ""} THEN heads ELSE heads \cup {b.head})
                ELSE {}
            : i \in 1..Len(blocks) }

\* C5 (as claimed): every definition block beneath a phrase block with a
\* header, at any depth, yields a string with that header among its tags.
C5_PhraseHeaderOnEveryNested ==
    (last.valid /\ last.err = "")
    => \A d \in DefsBeneath(last.sense.kids, << >>, {}) :
          \A h \in d.heads :
             \E n \in 1..Len(last.items) :
                /\ last.srcs[n] = d.path
                /\ \E i \in 1..Len(last.items[n]) :
                      last.items[n][i].k = "tag" /\ last.items[n][i].v = h

\* the guideword tag of one definition string, None when it has none
GuidewordTag(item) ==
    LET at == { i \in 1..Len(item) : item[i].k = "tag" /\ item[i].slot = "guideword" }
    IN  IF at = {} THEN None ELSE item[CHOOSE i \in at : TRUE].v

\* the first guideword marker of the sense group nearest to the block at
\* `path` below the sense's body, None when no group encloses it or the group
\* has no marker
RECURSIVE NearestGroupMarker(_, _, _)
NearestGroupMarker(blocks, path, sofar) ==
    IF Len(path) <= 1 THEN sofar
    ELSE LET b == blocks[path[1]]
         IN  NearestGroupMarker(b.kids, Tail(path),
                 IF \E c \in 1..Len(b.classes) : b.classes[c] = "dsense"
                 THEN (IF Markers(b) = << >> THEN None ELSE Markers(b)[1])
                 ELSE sofar)

SenseGroupMarker(sense) ==
    IF sense.ds /\ sense.gws \o MarkersOfSeq(sense.kids) # << >>
    THEN (sense.gws \o MarkersOfSeq(sense.kids))[1]
    ELSE None

\* The guidewords the n-th and later strings of the latest extract_definitions
\* call must carry, and the list position afterwards, under a strategy:
\*   "a"      : nearest group's marker, else the next unassigned list entry
\*   "merged" : nearest group's marker, else the sense's marker when the sense
\*              has exactly one; when that is missing or empty, the next
\*              unassigned list entry
RECURSIVE ExpectedGuidewords(_, _, _)
ExpectedGuidewords(strategy, n, gi) ==
    IF n > Len(last.items) THEN [vals |-> << >>, gi |-> gi]
    ELSE LET marker == NearestGroupMarker(last.sense.kids, last.srcs[n],
                                          SenseGroupMarker(last.sense))
             all    == last.sense.gws \o MarkersOfSeq(last.sense.kids)
             single == IF strategy = "merged" /\ Len(all) = 1
                       THEN (IF all[1] = " " THEN "" ELSE all[1]) ELSE None
             local  == IF marker # None THEN (IF marker = " " THEN "" ELSE marker)
                       ELSE single
             fall   == IF strategy = "merged" THEN local \in {None, ""} ELSE marker = None
             value  == IF ~fall THEN local
                       ELSE IF gi < Len(guidewords) THEN guidewords[gi + 1] ELSE None
             gi2    == IF fall /\ gi < Len(guidewords) THEN gi + 1 ELSE gi
             rest   == ExpectedGuidewords(strategy, n + 1, gi2)
         IN  [vals |-> << value >> \o rest.vals, gi |-> rest.gi]

GuidewordsFollow(strategy) ==
    (last.valid /\ last.err = "")
    => LET e == ExpectedGuidewords(strategy, 1, last.gi) IN
       /\ \A n \in 1..Len(last.items) :
             GuidewordTag(last.items[n]) = (IF e.vals[n] = "" THEN None ELSE e.vals[n])
       /\ last.gi_after = e.gi

\* the document-order list of the non-empty guideword markers of the container
AllMarkerTexts ==
    LET raw == [e \in 1..Len(html.entries) |->
                  [j \in 1..Len(html.entries[e].senses) |->
                     html.entries[e].senses[j].gws
                     \o MarkersOfSeq(html.entries[e].senses[j].kids)]]
        flatS(ss) == LET F[i \in 0..Len(ss)] == IF i = 0 THEN << >> ELSE F[i - 1] \o ss[i]
                     IN  F[Len(ss)]
        flat == flatS([e \in 1..Len(raw) |-> flatS(raw[e])])
    IN  SelectSeq(flat, LAMBDA t : t # " " /\ t # "")

AllSenses ==
    LET F[e \in 0..Len(html.entries)] ==
            IF e = 0 THEN << >> ELSE F[e - 1] \o html.entries[e].senses
    IN  F[Len(html.entries)]

UrlOf(attr) == IF attr \in {None, ""} THEN "" ELSE CAMBRIDGE_BASE \o attr

\* C7 (as claimed): once every sense is processed, image and thumb are the
\* two variants of the lightbox image of the last sense that has one.
C7_ImageAndThumbOfLastImage ==
    ParsedAll
    => LET withImg == { n \in 1..Len(AllSenses) : AllSenses[n].hasImg } IN
       withImg # {}
       => LET s == AllSenses[CHOOSE n \in withImg : \A m \in withImg : m <= n] IN
          /\ result.image = UrlOf(s.data_image)
          /\ result.thumb = UrlOf(s.src)

\* the pronunciation fields a pos-header's spans give
RECURSIVE PronOfHeader(_, _)
PronOfHeader(tags, acc) ==
    IF tags = << >> THEN acc
    ELSE LET t   == Head(tags)
             us  == t.region = "us"
             txt == IF t.pron = None THEN "" ELSE t.pron
             a1  == IF us THEN [acc EXCEPT !.AmE = txt] ELSE [acc EXCEPT !.BrE = txt]
             a2  == IF t.src \in {None, ""} THEN a1
                    ELSE IF us THEN [a1 EXCEPT !.AmEmp3 = CAMBRIDGE_BASE \o t.src]
                         ELSE [a1 EXCEPT !.BrEmp3 = CAMBRIDGE_BASE \o t.src]
         IN  PronOfHeader(Tail(tags), a2)

NoPron == [AmE |-> "", BrE |-> "", AmEmp3 |-> "", BrEmp3 |-> ""]

C9_NoImagesMarker ==
    (fn = "render_html" /\ args.data.image \in {None, ""} /\ args.data.thumb \in {None, ""})
    => /\ pc = "returned"
       /\ \E i \in 1..Len(out) : out[i].text = "No images available."
       /\ \A i \in 1..Len(out) : out[i].el # "img"

\* C10 (as claimed): every definition of a sense that is no runon carries the
\* entry's own part-of-speech label as its first tag.
C10_RunonOverrideIsLocal ==
    (last.valid /\ last.err = "" /\ last.sense.classes[1] # "runon"
        /\ last.entry_pos_gram # "")
    => \A n \in 1..Len(last.items) :
          /\ last.items[n] # << >>
          /\ last.items[n][1] = [k |-> "tag", slot |-> "pos_gram", v |-> last.entry_pos_gram]

====
